---- MODULE Spec2Model ----
(***************************************************************************)
(* Model of the "local playlists" plugin of ultrasonics                    *)
(* (src/ultrasonics/official_plugins/up_local playlists.py).               *)
(*                                                                         *)
(* Strings are sequences of one-character strings, so that str.replace,    *)
(* str.lstrip, str.startswith, re.sub and os.path.join are computed the    *)
(* way Python computes them.                                               *)
(*                                                                         *)
(* Three specifications:                                                   *)
(*   Spec      one job after another of run(): the directory scan, the     *)
(*             source-mode read pipeline, the backup manager and the       *)
(*             sink-mode write pipeline, against a disk that persists      *)
(*             between jobs;                                               *)
(*   SpecPath  the path translator (remove_prepend, convert_path and the   *)
(*             two translations built from them) on bounded inputs;        *)
(*   SpecName  the playlist-name sanitisation on bounded inputs.           *)
(***************************************************************************)
EXTENDS Integers, Sequences, FiniteSets, TLC

VARIABLES
  \* ---- the host and the disk (persist between jobs)
  os_name,          \* os.name: "posix" or "nt"
  rootExists,       \* whether the playlist directory settings_dict["dir"] exists
  files,            \* playlist directory: file path -> sequence of lines
  backupDirMade,    \* whether config_dir/up_local playlists/backups/<applet_id> exists
  snapshots,        \* the names of the snapshot directories under it
  \* ---- one job: the arguments and locals of run()
  pc,               \* position in run()
  component,        \* kwargs["component"]
  settings_dict,    \* [recursive, retention]
  database,         \* kwargs["database"], the plugin's saved settings: [local_prepend, ultrasonics_prepend]
  songs_dict,       \* kwargs["songs_dict"] (outputs) / the list returned (inputs)
  playlists,        \* the catalog: sequence of [name, path]
  pl,               \* index of the playlist (inputs) or item (outputs) in hand
  ln,               \* index of the line in hand (inputs)
  songs_dict_entry, \* the entry being built (inputs)
  temp_song_dict,   \* <<>> while unbound, <<record>> once assigned
  runtime,          \* backup_playlists' runtime string (<<>> before it is computed)
  error,            \* the exception that ended the job ("" if none)
  \* ---- history of the job in hand (observations, never read by the actions)
  filesAtStart,     \* files when the job started
  snapsAtStart,     \* snapshots when the job started
  backup_done,      \* backup_playlists() has returned
  backup_fault,     \* a filesystem call of backup_playlists() has raised
  ok_records,       \* the records local_tags.tags returned for the playlist in hand
  tag_calls,        \* the playlist lines whose path was handed to local_tags.tags
  \* ---- the pure-function specifications
  fn_stage, fn_arg, fn_invert, fn_line, fn_out

vars == << os_name, rootExists, files, backupDirMade, snapshots, pc, component,
           settings_dict, database, songs_dict, playlists, pl, ln,
           songs_dict_entry, temp_song_dict, runtime, error, filesAtStart,
           snapsAtStart, backup_done, backup_fault, ok_records, tag_calls,
           fn_stage, fn_arg, fn_invert, fn_line, fn_out >>

diskVars == << os_name, rootExists, files, backupDirMade, snapshots >>
fnVars == << fn_stage, fn_arg, fn_invert, fn_line, fn_out >>

----------------------------------------------------------------------------
(* Bounds of the model *)

\* longest path / name enumerated for the pure functions
MaxLen == 4
\* number of distinct seconds the clock of the backup manager can show
MaxTime == 6

----------------------------------------------------------------------------
(* Python's str and os.path, on sequences of characters *)

Sep == "/"
Bsl == "\\"

Min(a, b) == IF a < b THEN a ELSE b

\* str.startswith(prefix)
startswith(s, prefix) ==
  /\ Len(prefix) <= Len(s)
  /\ SubSeq(s, 1, Len(prefix)) = prefix

\* str.replace(old, new) for a non-empty old: leftmost, non-overlapping
RECURSIVE replace(_, _, _)
replace(s, old, new) ==
  IF Len(s) < Len(old) THEN s
  ELSE IF startswith(s, old)
       THEN new \o replace(SubSeq(s, Len(old) + 1, Len(s)), old, new)
       ELSE <<Head(s)>> \o replace(Tail(s), old, new)

\* str.lstrip(ch) for a one-character argument
RECURSIVE lstrip(_, _)
lstrip(s, ch) ==
  IF s # <<>> /\ Head(s) = ch THEN lstrip(Tail(s), ch) ELSE s

\* posixpath.join(a, b)
posix_join(a, b) ==
  IF startswith(b, <<Sep>>) THEN b
  ELSE IF a = <<>> \/ a[Len(a)] = Sep THEN a \o b
  ELSE a \o <<Sep>> \o b

\* ntpath.splitdrive, for drive-letter paths (no UNC shares)
nt_drive(p) == IF Len(p) >= 2 /\ p[2] = ":" THEN SubSeq(p, 1, 2) ELSE <<>>
nt_rest(p) == SubSeq(p, Len(nt_drive(p)) + 1, Len(p))
NtSeps == {Sep, Bsl}

\* ntpath.join(a, b), for drive-letter paths (no UNC shares)
nt_join(a, b) ==
  LET rd == nt_drive(a)
      rp == nt_rest(a)
      pd == nt_drive(b)
      pp == nt_rest(b)
  IN  IF pp # <<>> /\ Head(pp) \in NtSeps
      THEN (IF pd # <<>> \/ rd = <<>> THEN pd ELSE rd) \o pp
      ELSE IF pd # <<>> /\ pd # rd
      THEN pd \o pp
      ELSE rd \o (IF rp # <<>> /\ rp[Len(rp)] \notin NtSeps
                  THEN rp \o <<Bsl>> ELSE rp) \o pp

\* os.path.join(a, b) on the host
join(os, a, b) == IF os = "nt" THEN nt_join(a, b) ELSE posix_join(a, b)

----------------------------------------------------------------------------
(* Path translator *)

\* remove_prepend(path, invert)
remove_prepend(db, path, invert) ==
  IF ~invert
  THEN IF db.local_prepend # <<>>
       THEN lstrip(lstrip(replace(path, db.local_prepend, <<>>), Sep), Bsl)
       ELSE path
  ELSE IF db.ultrasonics_prepend # <<>>
       THEN lstrip(lstrip(replace(path, db.ultrasonics_prepend, <<>>), Sep), Bsl)
       ELSE path

\* enable_convert_path: the two prepends do not both (or neither) start with "/"
enable_convert_path(db) ==
  startswith(db.ultrasonics_prepend, <<Sep>>) # startswith(db.local_prepend, <<Sep>>)

\* convert_path(path, invert)
convert_path(db, os, path, invert) ==
  IF enable_convert_path(db)
  THEN LET unix0 == os # "nt"
           unix == IF invert THEN ~unix0 ELSE unix0
       IN  IF unix THEN replace(path, <<Bsl>>, <<Sep>>)
           ELSE replace(path, <<Sep>>, <<Bsl>>)
  ELSE path

\* inputs branch: the path handed to os.path.isfile / local_tags.tags for a line
SourcePath(db, os, song) ==
  join(os, db.ultrasonics_prepend,
       convert_path(db, os, remove_prepend(db, song, FALSE), FALSE))

\* outputs branch: the line written for a song's location
SinkLine(db, os, location) ==
  convert_path(db, os,
    join(os, convert_path(db, os, db.local_prepend, FALSE),
         remove_prepend(db, location, TRUE)),
    TRUE)

----------------------------------------------------------------------------
(* Name sanitisation: re.sub("[\\/:*?|<>]+[ ]*", "", name) *)

\* The Python literal "[\\/:*?|<>]+[ ]*" is the pattern [\/:*?|<>]+[ ]* : inside
\* the class, \/ is an escaped "/", so the class holds / : * ? | < > only.
ReClass == {"/", ":", "*", "?", "|", "<", ">"}

\* the text left after a match that has consumed its class characters: the
\* match goes on through the spaces that follow
RECURSIVE skip_spaces(_)
skip_spaces(s) == IF s # <<>> /\ Head(s) = " " THEN skip_spaces(Tail(s)) ELSE s

RECURSIVE skip_class(_)
skip_class(s) == IF s # <<>> /\ Head(s) \in ReClass THEN skip_class(Tail(s)) ELSE s

RECURSIVE sanitize(_)
sanitize(name) ==
  IF name = <<>> THEN <<>>
  ELSE IF Head(name) \in ReClass
       THEN sanitize(skip_spaces(skip_class(name)))
       ELSE <<Head(name)>> \o sanitize(Tail(name))

----------------------------------------------------------------------------
(* Inputs of the pure-function specifications *)

RECURSIVE StringsUpTo(_, _)
StringsUpTo(alphabet, n) ==
  IF n = 0 THEN {<<>>}
  ELSE LET shorter == StringsUpTo(alphabet, n - 1)
       IN  shorter \cup {<<c>> \o s : c \in alphabet, s \in {t \in shorter : Len(t) = n - 1}}

PathAlphabet == {Sep, Bsl, "m", "a"}
NameAlphabet == {"a", " ", Bsl, Sep, ":"}

\* the handshake's default prepends, shortened: "D:/Music", "/mnt/music library/music"
DefaultDb == [local_prepend |-> <<"D", ":", "/", "M">>, ultrasonics_prepend |-> <<"/", "m">>]
\* the same local prepend written with backslashes
BackslashDb == [local_prepend |-> <<"D", ":", "\\", "M">>, ultrasonics_prepend |-> <<"/", "m">>]
\* both prepends in the same convention
UnixDb == [local_prepend |-> <<"/", "a">>, ultrasonics_prepend |-> <<"/", "m">>]
\* a prepend left empty
NoLocalDb == [local_prepend |-> <<>>, ultrasonics_prepend |-> <<"/", "m">>]
NoUltrasonicsDb == [local_prepend |-> <<"/", "a">>, ultrasonics_prepend |-> <<>>]
\* ultrasonics on Windows: playlists from a POSIX machine, or from another drive
NtDb == [local_prepend |-> <<"/", "a">>, ultrasonics_prepend |-> <<"D", ":", "\\", "M">>]
NtDriveDb == [local_prepend |-> <<"E", ":", "\\", "L">>, ultrasonics_prepend |-> <<"D", ":", "\\", "M">>]

\* the hosts and the settings saved on them: the ultrasonics prepend is a path of
\* the host
HostConfigs ==
  ({"posix"} \X {DefaultDb, BackslashDb, UnixDb, NoLocalDb, NoUltrasonicsDb})
    \cup ({"nt"} \X {NtDb, NtDriveDb})

\* song files of the music directory, each as its path components
RelativeSongs == {<<"x">>, <<"x", "y">>}

\* os.sep
os_sep(os) == IF os = "nt" THEN Bsl ELSE Sep

\* a song file's location as the orchestrator names it: under ultrasonics_prepend
RECURSIVE LibraryLocation(_, _, _)
LibraryLocation(os, prefix, rel) ==
  IF rel = <<>> THEN prefix
  ELSE LibraryLocation(os,
         IF prefix = <<>> THEN <<Head(rel)>> ELSE prefix \o <<os_sep(os), Head(rel)>>,
         Tail(rel))

LibraryLocations(os, db) ==
  {LibraryLocation(os, db.ultrasonics_prepend, rel) : rel \in RelativeSongs}

----------------------------------------------------------------------------
(* The disk and the collaborators of run() *)

\* supported_playlist_extensions
supported_playlist_extensions == {".m3u"}

\* A file of the playlist directory: its directory below the root ("" is the root
\* itself), its name without extension and its extension.
RootA == [dir |-> "", stem |-> <<"a">>, ext |-> ".m3u"]
RootB == [dir |-> "", stem |-> <<"b">>, ext |-> ".m3u"]
RootN == [dir |-> "", stem |-> <<"n">>, ext |-> ".txt"]
SubB == [dir |-> "sub", stem |-> <<"b">>, ext |-> ".m3u"]
\* the subdirectory itself, as os.listdir names it
SubDir == [dir |-> "", stem |-> <<"s", "u", "b">>, ext |-> ""]

\* the order in which os.walk (top-down) and os.listdir give the entries
ListingOrder == << RootA, RootB, RootN, SubDir, SubB >>

\* the music library: the paths os.path.isfile finds (one file name begins with "#")
SongX == <<"/", "m", "/", "x">>
SongY == <<"/", "m", "/", "y">>
SongHash == <<"/", "m", "/", "#", "E">>
SongFiles == {SongX, SongY, SongHash}

\* os.path.isfile(song_path): the empty path and a path ending in a separator
\* name no file
isfile(song_path) == song_path \in SongFiles

\* the playlist directory as first found: playlists written on the machine whose
\* music lives under D:\M
LocalX == <<"D", ":", "\\", "M", "\\", "x">>
LocalY == <<"D", ":", "\\", "M", "\\", "y">>
LocalZ == <<"D", ":", "\\", "M", "\\", "z">>
CommentLine == <<"#", "E">>

NoFiles == [p \in {} |-> <<>>]

InitialFiles ==
  [p \in {RootA, RootN, SubB} |->
     IF p = RootA THEN << CommentLine, LocalX, <<>>, LocalY >>
     ELSE IF p = SubB THEN << LocalZ, LocalX >>
     ELSE <<>>]

\* a SongRecord; one without a "location" key has has_location = FALSE
Song(location) == [has_location |-> TRUE, location |-> location]
NoLocationSong == [has_location |-> FALSE, location |-> <<>>]

\* the songs_dict lists the orchestrator hands to the outputs branch
IncomingLists ==
  { <<>>,
    << [name |-> <<"a", ":", " ">>, songs |-> << Song(SongX), NoLocationSong >>],
       [name |-> <<"a">>, songs |-> << Song(SongY) >>] >>,
    << [name |-> <<"b">>, songs |-> << Song(SongY), Song(SongX) >>] >> }

RunDatabases == {BackslashDb, NoUltrasonicsDb}

\* retention_dict
retention_dict ==
  [r \in {"No Backups", "3 Backups", "5 Backups", "10 Backups"} |->
     CASE r = "No Backups" -> 0
       [] r = "3 Backups" -> 3
       [] r = "5 Backups" -> 5
       [] r = "10 Backups" -> 10]

----------------------------------------------------------------------------
(* Backup manager: snapshot names *)

Digits == << "0", "1", "2", "3", "4", "5", "6", "7", "8", "9" >>
Digit(d) == Digits[d + 1]

\* the code point order of the characters of a snapshot name
CharOrd(c) ==
  IF c = "-" THEN 0 ELSE CHOOSE d \in 1..10 : Digits[d] = c

\* str(datetime.now().replace(microsecond=0)).replace(" ", "-").replace(":", "-"),
\* its minute and second fields, for second t of the hour
Runtime(t) ==
  << Digit((t \div 60) \div 10), Digit((t \div 60) % 10), "-",
     Digit((t % 60) \div 10), Digit((t % 60) % 10) >>

\* Python's order of two strings
RECURSIVE StrLess(_, _)
StrLess(a, b) ==
  IF b = <<>> THEN FALSE
  ELSE IF a = <<>> THEN TRUE
  ELSE IF Head(a) = Head(b) THEN StrLess(Tail(a), Tail(b))
  ELSE CharOrd(Head(a)) < CharOrd(Head(b))

\* backup_time: b.replace("-", "")
backup_time(b) == replace(b, <<"-">>, <<>>)

\* max in place of min: the newest snapshot is picked for deletion
NewestBackup(backups) ==
  CHOOSE b \in backups :
    \A c \in backups : c = b \/ StrLess(backup_time(c), backup_time(b))

\* backups[backup_time.index(min(backup_time))]
OldestBackup(backups) ==
  CHOOSE b \in backups :
    \A c \in backups : c = b \/ StrLess(backup_time(b), backup_time(c))

\* an off-by-one loop condition: one snapshot too many is kept
NeedsPruneLate(count, retention) == count > retention + 1

\* the while condition of the pruning loop
NeedsPrune(count, retention) == count > retention

\* The seconds the clock can show when a job computes runtime. The clock never
\* runs backwards; the time that passes between two jobs is not modelled, since
\* only the order of the timestamps matters: the same second as the newest
\* snapshot, or the next one.
ClockNow ==
  IF snapshots = {} THEN {1}
  ELSE LET newest == CHOOSE t \in 1..MaxTime :
                       /\ Runtime(t) \in snapshots
                       /\ \A u \in (t + 1)..MaxTime : Runtime(u) \notin snapshots
       IN  {newest, newest + 1} \cap (1..MaxTime)

----------------------------------------------------------------------------
(* run(): the directory scan *)

\* the entries the scan appends: os.walk(path) in recursive mode, os.listdir(path)
\* otherwise. A missing directory gives no entry in either mode: os.walk yields
\* nothing, and the FileNotFoundError of os.listdir is caught and logged.
Scanned(fs, exists, recursive) ==
  IF ~exists THEN <<>>
  ELSE LET listed(p) ==
             IF recursive = "Yes" THEN p \in DOMAIN fs
             ELSE p.dir = "" /\ (p \in DOMAIN fs \/
                                 (p = SubDir /\ \E q \in DOMAIN fs : q.dir = "sub"))
           entries == SelectSeq(ListingOrder, listed)
       IN  [k \in 1..Len(entries) |-> [name |-> entries[k].stem, path |-> entries[k]]]

\* "Remove any files which don't have a supported extension"
Supported(item) == item.path.ext \in supported_playlist_extensions

\* the catalog: playlists after the scan and the extension filter
Catalog(fs, exists, recursive) == SelectSeq(Scanned(fs, exists, recursive), Supported)

\* the names of a catalog
Titles(catalog) == {catalog[k].name : k \in 1..Len(catalog)}

----------------------------------------------------------------------------
(* Initial state and the start of a job *)

NoEntry == [name |-> <<>>, id |-> "{}", songs |-> <<>>]
NoSettings == [recursive |-> "No", retention |-> "No Backups"]

JobIdle ==
  /\ pc = "idle"
  /\ component = ""
  /\ settings_dict = NoSettings
  /\ songs_dict = <<>>
  /\ playlists = <<>>
  /\ pl = 0
  /\ ln = 0
  /\ songs_dict_entry = NoEntry
  /\ temp_song_dict = <<>>
  /\ runtime = <<>>
  /\ error = ""
  /\ filesAtStart = files
  /\ snapsAtStart = snapshots
  /\ backup_done = FALSE
  /\ backup_fault = FALSE
  /\ ok_records = <<>>
  /\ tag_calls = <<>>

FnIdle ==
  /\ fn_stage = "off"
  /\ fn_arg = <<>>
  /\ fn_invert = FALSE
  /\ fn_line = <<>>
  /\ fn_out = <<>>

\* A POSIX host (the handshake's default ultrasonics prepend is a POSIX path);
\* the playlist directory is there with its first playlists, or is missing;
\* no backup has been taken yet.
Init ==
  /\ os_name = "posix"
  /\ rootExists \in BOOLEAN
  /\ files = IF rootExists THEN InitialFiles ELSE NoFiles
  /\ backupDirMade = FALSE
  /\ snapshots = {}
  /\ database \in RunDatabases
  /\ JobIdle
  /\ FnIdle

\* what every call of run() starts from: lines 91-95 and the scan, lines 204-254
Called(comp, rec, ret, incoming) ==
  /\ pc \in {"idle", "done", "failed"}
  /\ component' = comp
  /\ settings_dict' = [recursive |-> rec, retention |-> ret]
  /\ songs_dict' = incoming
  /\ playlists' = Catalog(files, rootExists, rec)
  /\ pl' = 0
  /\ ln' = 0
  /\ songs_dict_entry' = NoEntry
  /\ temp_song_dict' = <<>>
  /\ runtime' = <<>>
  /\ error' = ""
  /\ filesAtStart' = files
  /\ snapsAtStart' = snapshots
  /\ backup_done' = FALSE
  /\ backup_fault' = FALSE
  /\ ok_records' = <<>>
  /\ tag_calls' = <<>>
  /\ UNCHANGED << diskVars, database, fnVars >>

\* run() is called with component = "inputs"
StartInputs ==
  /\ \E rec \in {"Yes", "No"} : Called("inputs", rec, "No Backups", <<>>)
  /\ pc' = "filter"

\* run() is called with component = "outputs"
StartOutputs ==
  /\ \E rec \in {"Yes", "No"}, ret \in DOMAIN retention_dict, incoming \in IncomingLists :
       Called("outputs", rec, ret, incoming)
  /\ pc' = "backup"

----------------------------------------------------------------------------
(* run(): the inputs branch (source mode) *)

\* the "#" test left out: every line is taken for a path
NeverComment(song) == FALSE

\* line 278: song.startswith("#")
IsComment(song) == startswith(song, <<"#">>)

\* lines 259-265: name_filter.filter_list is a collaborator; whatever titles it
\* selects, the catalog keeps the playlists with those titles
ApplyFilter ==
  /\ pc = "filter"
  /\ \E filter_titles \in SUBSET Titles(playlists) :
       playlists' = SelectSeq(playlists, LAMBDA item : item.name \in filter_titles)
  /\ songs_dict' = <<>>
  /\ pl' = 1
  /\ pc' = "playlist"
  /\ UNCHANGED << diskVars, fnVars, component, settings_dict, database, ln,
                  songs_dict_entry, temp_song_dict, runtime, error, filesAtStart,
                  snapsAtStart, backup_done, backup_fault, ok_records, tag_calls >>

\* lines 267-273: the next playlist is opened and read
OpenPlaylist ==
  /\ pc = "playlist"
  /\ pl <= Len(playlists)
  /\ songs_dict_entry' = [name |-> playlists[pl].name, id |-> "{}", songs |-> <<>>]
  /\ ln' = 1
  /\ ok_records' = <<>>
  /\ tag_calls' = <<>>
  /\ pc' = "line"
  /\ UNCHANGED << diskVars, fnVars, component, settings_dict, database, songs_dict,
                  playlists, pl, temp_song_dict, runtime, error, filesAtStart,
                  snapsAtStart, backup_done, backup_fault >>

\* the lines of the playlist in hand
CurrentLines == files[playlists[pl].path]

NextLine ==
  /\ ln' = ln + 1
  /\ UNCHANGED << pc, error >>

\* lines 275-303: one iteration of the loop over the playlist's lines
ProcessLine ==
  /\ pc = "line"
  /\ ln <= Len(CurrentLines)
  /\ LET song == CurrentLines[ln]
         song_path == SourcePath(database, os_name, song)
         append(record) ==
           songs_dict_entry' =
             [songs_dict_entry EXCEPT !.songs = Append(@, record)]
     IN  IF IsComment(song) \/ ~isfile(song_path)
         THEN \* continue
              /\ NextLine
              /\ UNCHANGED << songs_dict_entry, temp_song_dict, ok_records, tag_calls >>
         ELSE /\ tag_calls' = Append(tag_calls, song)
              /\ \E outcome \in {"record", "NotImplementedError", "Exception"} :
                   CASE outcome = "record" ->
                          /\ temp_song_dict' = << Song(song_path) >>
                          /\ ok_records' = Append(ok_records, Song(song_path))
                          /\ append(Song(song_path))
                          /\ NextLine
                     [] outcome = "NotImplementedError" ->
                          \* continue
                          /\ NextLine
                          /\ UNCHANGED << songs_dict_entry, temp_song_dict, ok_records >>
                     [] outcome = "Exception" ->
                          \* logged; control falls through to line 303
                          /\ UNCHANGED << temp_song_dict, ok_records >>
                          /\ IF temp_song_dict = <<>>
                             THEN /\ pc' = "failed"
                                  /\ error' = "UnboundLocalError"
                                  /\ UNCHANGED << songs_dict_entry, ln >>
                             ELSE /\ append(temp_song_dict[1])
                                  /\ NextLine
  /\ UNCHANGED << diskVars, fnVars, component, settings_dict, database, songs_dict,
                  playlists, pl, runtime, filesAtStart, snapsAtStart, backup_done,
                  backup_fault >>

\* line 306: the playlist's entry joins songs_dict
ClosePlaylist ==
  /\ pc = "line"
  /\ ln > Len(CurrentLines)
  /\ songs_dict' = Append(songs_dict, songs_dict_entry)
  /\ pl' = pl + 1
  /\ pc' = "playlist"
  /\ UNCHANGED << diskVars, fnVars, component, settings_dict, database, playlists, ln,
                  songs_dict_entry, temp_song_dict, runtime, error, filesAtStart,
                  snapsAtStart, backup_done, backup_fault, ok_records, tag_calls >>

\* line 308: return songs_dict
ReturnInputs ==
  /\ pc = "playlist"
  /\ pl > Len(playlists)
  /\ pc' = "done"
  /\ UNCHANGED << diskVars, fnVars, component, settings_dict, database, songs_dict,
                  playlists, pl, ln, songs_dict_entry, temp_song_dict, runtime, error,
                  filesAtStart, snapsAtStart, backup_done, backup_fault, ok_records,
                  tag_calls >>

----------------------------------------------------------------------------
(* run(): backup_playlists() *)

\* a bare except around the whole of backup_playlists: every failure is swallowed
SwallowsAll(call, exc) == TRUE

\* lines 153-157: the one except clause of backup_playlists. An exception of any
\* other call, or any other exception of os.makedirs, leaves run().
Swallowed(call, exc) == call = "makedirs" /\ exc = "FileExistsError"

\* `call` raises `exc`; `next` is where control goes on if it is caught
Raise(call, exc, next) ==
  /\ backup_fault' = (backup_fault \/ ~(call = "makedirs" /\ exc = "FileExistsError"))
  /\ IF Swallowed(call, exc)
     THEN pc' = next /\ UNCHANGED error
     ELSE pc' = "failed" /\ error' = exc

Retention == retention_dict[settings_dict.retention]

\* lines 143-157: runtime is computed and the backups folder made
BackupSetup ==
  /\ pc = "backup"
  /\ \E t \in ClockNow : runtime' = Runtime(t)
  /\ IF backupDirMade
     THEN /\ Raise("makedirs", "FileExistsError", "copy")
          /\ UNCHANGED backupDirMade
     ELSE \E made \in BOOLEAN :
            IF made
            THEN /\ backupDirMade' = TRUE
                 /\ pc' = "copy"
                 /\ UNCHANGED << error, backup_fault >>
            ELSE /\ Raise("makedirs", "OSError", "copy")
                 /\ UNCHANGED backupDirMade
  /\ UNCHANGED << os_name, rootExists, files, snapshots, fnVars, component,
                  settings_dict, database, songs_dict, playlists, pl, ln,
                  songs_dict_entry, temp_song_dict, filesAtStart, snapsAtStart,
                  backup_done, ok_records, tag_calls >>

\* lines 166-174: shutil.copytree(path, backup_dir/runtime) if retention > 0.
\* copytree raises before making the snapshot directory when the playlist
\* directory is missing or the snapshot directory is there already (a second job
\* in the same second); any other failure leaves nothing or what was copied so far.
BackupCopy ==
  /\ pc = "copy"
  /\ IF Retention > 0
     THEN IF ~rootExists
          THEN /\ Raise("copytree", "FileNotFoundError", "prune")
               /\ UNCHANGED snapshots
          ELSE IF runtime \in snapshots
          THEN /\ Raise("copytree", "FileExistsError", "prune")
               /\ UNCHANGED snapshots
          ELSE \E outcome \in {"copied", "partial", "nothing"} :
                 /\ snapshots' = IF outcome = "nothing" THEN snapshots
                                 ELSE snapshots \cup {runtime}
                 /\ IF outcome = "copied"
                    THEN pc' = "prune" /\ UNCHANGED << error, backup_fault >>
                    ELSE Raise("copytree", "OSError", "prune")
     ELSE /\ pc' = "prune"
          /\ UNCHANGED << snapshots, error, backup_fault >>
  /\ UNCHANGED << os_name, rootExists, files, backupDirMade, fnVars, component,
                  settings_dict, database, songs_dict, playlists, pl, ln,
                  songs_dict_entry, temp_song_dict, runtime, filesAtStart,
                  snapsAtStart, backup_done, ok_records, tag_calls >>

\* lines 176-189: the listing, and one iteration of the pruning loop. The list
\* `backups` of the code is the listing less what the loop has removed, which is
\* what the folder holds.
BackupPrune ==
  /\ pc = "prune"
  /\ IF NeedsPrune(Cardinality(snapshots), Retention)
     THEN \E removed \in BOOLEAN :
            IF removed
            THEN /\ snapshots' = snapshots \ {OldestBackup(snapshots)}
                 /\ UNCHANGED << pc, error, backup_fault >>
            ELSE /\ Raise("rmtree", "OSError", "size")
                 /\ UNCHANGED snapshots
     ELSE /\ pc' = "size"
          /\ UNCHANGED << snapshots, error, backup_fault >>
  /\ UNCHANGED << os_name, rootExists, files, backupDirMade, fnVars, component,
                  settings_dict, database, songs_dict, playlists, pl, ln,
                  songs_dict_entry, temp_song_dict, runtime, filesAtStart,
                  snapsAtStart, backup_done, ok_records, tag_calls >>

\* lines 191-201: the size is logged and backup_playlists() returns (line 312)
BackupSize ==
  /\ pc = "size"
  /\ backup_done' = TRUE
  /\ pl' = 1
  /\ pc' = "write"
  /\ UNCHANGED << diskVars, fnVars, component, settings_dict, database, songs_dict,
                  playlists, ln, songs_dict_entry, temp_song_dict, runtime, error,
                  filesAtStart, snapsAtStart, backup_fault, ok_records, tag_calls >>

----------------------------------------------------------------------------
(* run(): the outputs branch (sink mode) *)

\* line 324-326: [x["path"] for x in playlists if x["name"] == name][0]
FirstMatch(catalog, name) ==
  catalog[CHOOSE k \in 1..Len(catalog) :
            /\ catalog[k].name = name
            /\ \A h \in 1..(k - 1) : catalog[h].name # name].path

\* line 332: os.path.join(path, name + ".m3u")
NewPlaylistPath(name) == [dir |-> "", stem |-> name, ext |-> ".m3u"]

\* mode "a" in place of "w": the old lines stay
OpenA(fs, path) == IF path \in DOMAIN fs THEN fs[path] ELSE <<>>

\* what the file holds once io.open(path, "w") has returned
OpenW(fs, path) == <<>>

\* lines 339-354: the lines written for the songs of one item
RECURSIVE SinkLines(_, _, _)
SinkLines(db, os, songs) ==
  IF songs = <<>> THEN <<>>
  ELSE IF ~Head(songs).has_location
       THEN SinkLines(db, os, Tail(songs))
       ELSE <<SinkLine(db, os, Head(songs).location)>> \o SinkLines(db, os, Tail(songs))

\* lines 317-356: one iteration of the loop over songs_dict
WriteItem ==
  /\ pc = "write"
  /\ pl <= Len(songs_dict)
  /\ LET name == sanitize(songs_dict[pl].name)
         exists == name \in Titles(playlists)
         target == IF exists THEN FirstMatch(playlists, name) ELSE NewPlaylistPath(name)
         written == OpenW(files, target) \o SinkLines(database, os_name, songs_dict[pl].songs)
     IN  /\ songs_dict' = [songs_dict EXCEPT ![pl].name = name]
         /\ IF ~exists /\ ~rootExists
            THEN \* io.open of a file in a missing directory
                 /\ pc' = "failed"
                 /\ error' = "FileNotFoundError"
                 /\ UNCHANGED << files, pl >>
            ELSE /\ files' = [p \in DOMAIN files \cup {target} |->
                               IF p = target THEN written ELSE files[p]]
                 /\ pl' = pl + 1
                 /\ UNCHANGED << pc, error >>
  /\ UNCHANGED << os_name, rootExists, backupDirMade, snapshots, fnVars, component,
                  settings_dict, database, playlists, ln, songs_dict_entry,
                  temp_song_dict, runtime, filesAtStart, snapsAtStart, backup_done,
                  backup_fault, ok_records, tag_calls >>

\* the loop over songs_dict is over: run() returns
ReturnOutputs ==
  /\ pc = "write"
  /\ pl > Len(songs_dict)
  /\ pc' = "done"
  /\ UNCHANGED << diskVars, fnVars, component, settings_dict, database, songs_dict,
                  playlists, pl, ln, songs_dict_entry, temp_song_dict, runtime, error,
                  filesAtStart, snapsAtStart, backup_done, backup_fault, ok_records,
                  tag_calls >>

Next ==
  \/ StartInputs
  \/ StartOutputs
  \/ ApplyFilter
  \/ OpenPlaylist
  \/ ProcessLine
  \/ ClosePlaylist
  \/ ReturnInputs
  \/ BackupSetup
  \/ BackupCopy
  \/ BackupPrune
  \/ BackupSize
  \/ WriteItem
  \/ ReturnOutputs

Spec == Init /\ [][Next]_vars

----------------------------------------------------------------------------
(* SpecPath: the path translator on bounded inputs *)

DiskIdle ==
  /\ rootExists = FALSE
  /\ files = NoFiles
  /\ backupDirMade = FALSE
  /\ snapshots = {}

InitPath ==
  /\ \E cfg \in HostConfigs :
       /\ os_name = cfg[1]
       /\ database = cfg[2]
  /\ DiskIdle
  /\ JobIdle
  /\ fn_stage = "path"
  /\ fn_arg \in StringsUpTo(PathAlphabet, MaxLen) \cup LibraryLocations(os_name, database)
  /\ fn_invert = FALSE
  /\ fn_line = <<>>
  /\ fn_out = <<>>

jobVars == << pc, component, settings_dict, songs_dict, playlists, pl, ln,
              songs_dict_entry, temp_song_dict, runtime, error, filesAtStart,
              snapsAtStart, backup_done, backup_fault, ok_records, tag_calls >>

\* remove_prepend(path, invert) is applied to a path
StripPrepend ==
  /\ fn_stage = "path"
  /\ \E invert \in BOOLEAN :
       /\ fn_invert' = invert
       /\ fn_out' = remove_prepend(database, fn_arg, invert)
  /\ fn_stage' = "stripped"
  /\ UNCHANGED << diskVars, database, jobVars, fn_arg, fn_line >>

\* the outputs branch writes the line of a song of the library (lines 345-354)
WriteLocation ==
  /\ fn_stage = "path"
  /\ fn_arg \in LibraryLocations(os_name, database)
  /\ fn_line' = SinkLine(database, os_name, fn_arg)
  /\ fn_stage' = "written"
  /\ UNCHANGED << diskVars, database, jobVars, fn_arg, fn_invert, fn_out >>

\* the inputs branch resolves the line just written (lines 282-284)
ReadBack ==
  /\ fn_stage = "written"
  /\ fn_out' = SourcePath(database, os_name, fn_line)
  /\ fn_stage' = "read"
  /\ UNCHANGED << diskVars, database, jobVars, fn_arg, fn_invert, fn_line >>

NextPath ==
  \/ StripPrepend
  \/ WriteLocation
  \/ ReadBack

SpecPath == InitPath /\ [][NextPath]_vars

----------------------------------------------------------------------------
(* SpecName: the name sanitisation on bounded inputs *)

InitName ==
  /\ os_name = "posix"
  /\ database = DefaultDb
  /\ DiskIdle
  /\ JobIdle
  /\ fn_stage = "name"
  /\ fn_arg \in StringsUpTo(NameAlphabet, MaxLen)
  /\ fn_invert = FALSE
  /\ fn_line = <<>>
  /\ fn_out = <<>>

\* line 319: item["name"] = re.sub(...)
SanitizeName ==
  /\ fn_stage = "name"
  /\ fn_out' = sanitize(fn_arg)
  /\ fn_stage' = "sanitized"
  /\ UNCHANGED << diskVars, database, jobVars, fn_arg, fn_invert, fn_line >>

NextName == SanitizeName

SpecName == InitName /\ [][NextName]_vars

----------------------------------------------------------------------------
(* Claims about the read pipeline (Spec) *)

\* C1: in source mode an entry whose file exists but whose metadata extraction
\* fails with an error other than "unsupported format" is skipped: the songs of
\* the playlist in hand are exactly the records the extractor returned, in order
\* (no record is appended for the failing entry, in particular not an earlier
\* one a second time), and the job does not fail on it, even when it is the
\* first entry of the first playlist.
C1_ExtractionFailureSkipsEntry ==
  component = "inputs" =>
    /\ error # "UnboundLocalError"
    /\ songs_dict_entry.songs = ok_records

\* the number of lines of a playlist that are neither comments nor empty
RECURSIVE EntryLines(_)
EntryLines(lines) ==
  IF lines = <<>> THEN 0
  ELSE (IF Head(lines) = <<>> \/ Head(Head(lines)) = "#" THEN 0 ELSE 1)
         + EntryLines(Tail(lines))

\* C9: in source mode, whatever the prepends, a line beginning with "#" and an
\* empty line never reach the metadata extractor and never produce a SongRecord:
\* every record comes from an extractor call, and a playlist's songs are at most
\* its non-comment, non-empty lines.
C9_CommentsAndBlanksAreNotSongs ==
  component = "inputs" =>
    /\ \A k \in 1..Len(tag_calls) : tag_calls[k] # <<>> /\ Head(tag_calls[k]) # "#"
    /\ Len(songs_dict_entry.songs) <= Len(tag_calls)
    /\ pc = "line" => Len(songs_dict_entry.songs) <= EntryLines(CurrentLines)
    /\ \A k \in 1..Len(songs_dict) :
         Len(songs_dict[k].songs) <= EntryLines(files[playlists[k].path])

\* a playlist holding a comment and an empty line has been read to its end and
\* has given songs
C9_Witness ==
  /\ component = "inputs"
  /\ pc = "line"
  /\ ln > Len(CurrentLines)
  /\ \E k \in 1..Len(CurrentLines) : CurrentLines[k] = <<>>
  /\ \E k \in 1..Len(CurrentLines) : CurrentLines[k] # <<>> /\ Head(CurrentLines[k]) = "#"
  /\ Len(songs_dict_entry.songs) = 2

\* C6: a wholly missing playlist directory is fatal in both modes and for both
\* kinds of scan: no job completes when the directory is missing.
C6_MissingRootIsFatal ==
  pc = "done" => rootExists

----------------------------------------------------------------------------
(* Claims about the backup manager (Spec) *)

\* the snapshots a job could leave: those it found and the one it takes
SnapshotsSeen ==
  snapsAtStart \cup (IF Retention > 0 /\ runtime # <<>> THEN {runtime} ELSE {})

\* every snapshot that is gone has a smaller timestamp string than every one left
KeptAreMostRecent ==
  \A gone \in SnapshotsSeen \ snapshots : \A kept \in snapshots : StrLess(gone, kept)

FinishedSink == component = "outputs" /\ pc = "done"

C10_PruneToRetention ==
  component = "outputs" =>
    /\ Retention = 0 => snapshots \subseteq snapsAtStart
    /\ pc = "done" =>
         /\ Cardinality(snapshots) =
              Min(Retention, Cardinality(snapsAtStart) + (IF Retention > 0 THEN 1 ELSE 0))
         /\ snapshots \subseteq SnapshotsSeen
         /\ KeptAreMostRecent

\* a job has pruned two snapshots at once, and a "No Backups" job has deleted
\* all those it found
C10_Witness ==
  /\ FinishedSink
  /\ \/ Retention = 3 /\ Cardinality(snapsAtStart) = 4 /\ Cardinality(snapshots) = 3
     \/ Retention = 0 /\ Cardinality(snapsAtStart) >= 2 /\ snapshots = {}

\* C7: in sink mode no playlist file is written before backup_playlists() has
\* returned, and a filesystem failure of the backup (other than the backups
\* folder being there already) ends the job with every playlist file unchanged.
C7_BackupBeforeWrite ==
  component = "outputs" =>
    /\ ~backup_done => files = filesAtStart
    /\ backup_fault => (pc = "failed" /\ ~backup_done /\ files = filesAtStart)

\* the pruning of a job that had playlists to write has failed after the
\* snapshot was taken
C7_Witness ==
  /\ component = "outputs"
  /\ pc = "failed"
  /\ backup_fault
  /\ error = "OSError"
  /\ songs_dict # <<>>
  /\ runtime \in snapshots
  /\ Cardinality(snapshots) > Retention

----------------------------------------------------------------------------
(* Claims about the write pipeline (Spec) *)

\* the lines a playlist file should hold for the songs of an item
ExpectedLines(songs) ==
  LET located == SelectSeq(songs, LAMBDA song : song.has_location)
  IN  [k \in 1..Len(located) |-> SinkLine(database, os_name, located[k].location)]

\* the index of the first catalog entry with a name
FirstEntry(name) ==
  CHOOSE k \in 1..Len(playlists) :
    /\ playlists[k].name = name
    /\ \A h \in 1..(k - 1) : playlists[h].name # name

\* the items of songs_dict whose (sanitised) name is in the catalog
Merged == {i \in 1..Len(songs_dict) : songs_dict[i].name \in Titles(playlists)}

\* no file root/name.m3u has been created for a name of the catalog
NoNewFileFor(name) ==
  NewPlaylistPath(name) \in DOMAIN files => NewPlaylistPath(name) \in DOMAIN filesAtStart

\* C3, as stated: after a sink job, for every incoming playlist whose sanitised
\* name is in the catalog, the file of the first catalog entry with that name
\* holds exactly the translated locations of that playlist's songs, in order,
\* and no new file was created for it.
C3_MergeOverwritesWithOwnSongs ==
  FinishedSink =>
    \A i \in Merged :
       /\ files[playlists[FirstEntry(songs_dict[i].name)].path]
            = ExpectedLines(songs_dict[i].songs)
       /\ NoNewFileFor(songs_dict[i].name)

\* C3, amended: ... holds exactly the translated locations of the songs of the
\* last incoming playlist with that sanitised name.
C3_MergeOverwritesWithLastSongs ==
  FinishedSink =>
    \A i \in Merged :
       LET last == CHOOSE j \in i..Len(songs_dict) :
                     /\ songs_dict[j].name = songs_dict[i].name
                     /\ \A h \in (j + 1)..Len(songs_dict) :
                          songs_dict[h].name # songs_dict[i].name
       IN  /\ files[playlists[FirstEntry(songs_dict[i].name)].path]
                = ExpectedLines(songs_dict[last].songs)
           /\ NoNewFileFor(songs_dict[i].name)

\* a playlist of a subdirectory has been overwritten: a line of the old file is
\* gone, and no file of that name was created in the root
C3_Witness ==
  /\ FinishedSink
  /\ \E i \in Merged :
       LET path == playlists[FirstEntry(songs_dict[i].name)].path
       IN  /\ path.dir = "sub"
           /\ files[path] # <<>>
           /\ \E k \in 1..Len(filesAtStart[path]) :
                \A h \in 1..Len(files[path]) : files[path][h] # filesAtStart[path][k]
           /\ NewPlaylistPath(songs_dict[i].name) \notin DOMAIN files

----------------------------------------------------------------------------
(* Claims about the path translator (SpecPath) *)

\* every leading "/" and "\" of a path, in any mixture, removed
RECURSIVE StripSeparators(_)
StripSeparators(path) ==
  IF path # <<>> /\ Head(path) \in {Sep, Bsl} THEN StripSeparators(Tail(path)) ELSE path

\* C8: remove_prepend, in both directions: a non-empty prepend is removed only
\* where it starts the path (other occurrences stay), then every leading
\* separator, "/" and "\" in any mixture, is stripped; with an empty prepend the
\* path is returned unchanged.
C8_StripPrefixAtStartOnly ==
  fn_stage = "stripped" =>
    LET prefix == IF fn_invert THEN database.ultrasonics_prepend
                  ELSE database.local_prepend
    IN  fn_out =
          IF prefix = <<>> THEN fn_arg
          ELSE IF startswith(fn_arg, prefix)
               THEN StripSeparators(SubSeq(fn_arg, Len(prefix) + 1, Len(fn_arg)))
               ELSE StripSeparators(fn_arg)

\* C4: round trip: for every configured pair of prepends, also when their
\* separator conventions differ, the line written for the location of a song
\* file resolves, when read back with the same prepends, to that location.
C4_RoundTrip ==
  (/\ fn_stage = "read"
   /\ database.local_prepend # <<>>
   /\ database.ultrasonics_prepend # <<>>) => fn_out = fn_arg

----------------------------------------------------------------------------
(* Claims about the name sanitisation (SpecName) *)

\* the characters the claim names
IllegalCharacters == {Bsl, "/", ":", "*", "?", "|", "<", ">"}

\* each illegal character, and the spaces right after it, removed
RECURSIVE WithoutIllegal(_)
WithoutIllegal(name) ==
  IF name = <<>> THEN <<>>
  ELSE IF Head(name) \in IllegalCharacters
       THEN WithoutIllegal(skip_spaces(Tail(name)))
       ELSE <<Head(name)>> \o WithoutIllegal(Tail(name))

\* C5: the name used as the file name holds none of \ / : * ? | < > : each of
\* them, with the spaces right after it, is removed, and every other character
\* is kept in order.
C5_NameHasNoIllegalCharacter ==
  fn_stage = "sanitized" =>
    /\ \A k \in 1..Len(fn_out) : fn_out[k] \notin IllegalCharacters
    /\ fn_out = WithoutIllegal(fn_arg)

====
